---------------------------- MODULE Spec2Model ----------------------------
(***************************************************************************)
(* A model of the naca456 wrapper (src/src/naca456.py): the NACA456 object *)
(* and its generate pipeline -- derive the name, write nml/<stem>.nml, run *)
(* the engine, move naca.out/naca.gnu/naca.dbg, parse out/<stem>.out,      *)
(* export out/xfoil/<stem>.dat.                                            *)
(*                                                                         *)
(* Text is a sequence of one-character strings, so that lower(), upper(),  *)
(* strip(), split(), startswith() and "in" are computed character by       *)
(* character as Python computes them.  "KELVIN" stands for the single code *)
(* point U+212A, whose str.lower() is "k".                                 *)
(* A Python float read from a report is a sign and a magnitude in units of *)
(* 10^-7; a numeric parameter of the namelist is an integer in thousandths.*)
(***************************************************************************)
EXTENDS Integers, Sequences, FiniteSets, TLC

(***************************************************************************)
(* Characters and str methods                                              *)
(***************************************************************************)
UpperLetters ==
  <<"A", "B", "C", "D", "E", "F", "G", "H", "I", "J", "K", "L", "M",
    "N", "O", "P", "Q", "R", "S", "T", "U", "V", "W", "X", "Y", "Z">>

LowerLetters ==
  <<"a", "b", "c", "d", "e", "f", "g", "h", "i", "j", "k", "l", "m",
    "n", "o", "p", "q", "r", "s", "t", "u", "v", "w", "x", "y", "z">>

Digits ==
  <<"0", "1", "2", "3", "4", "5", "6", "7", "8", "9">>

Range(s) ==
  {s[i] : i \in 1..Len(s)}

\* str.lower() of one character.
LowerCh(c) ==
  IF \E i \in 1..26 : UpperLetters[i] = c
    THEN LowerLetters[CHOOSE i \in 1..26 : UpperLetters[i] = c]
    ELSE IF c = "KELVIN" THEN "k" ELSE c

\* str.upper() of one character (U+212A is already upper case).
UpperCh(c) ==
  IF \E i \in 1..26 : LowerLetters[i] = c
    THEN UpperLetters[CHOOSE i \in 1..26 : LowerLetters[i] = c]
    ELSE c

lower(s) ==
  [i \in 1..Len(s) |-> LowerCh(s[i])]

upper(s) ==
  [i \in 1..Len(s) |-> UpperCh(s[i])]

startswith(s, p) ==
  Len(s) >= Len(p) /\ SubSeq(s, 1, Len(p)) = p

\* Python's "p in s" on strings.
contains(s, p) ==
  \E i \in 1..(Len(s) - Len(p) + 1) : SubSeq(s, i, i + Len(p) - 1) = p

Whitespace ==
  {" ", "\t"}

\* s.lstrip(chars)
lstripChars(s, chars) ==
  LET keep == {i \in 1..Len(s) : s[i] \notin chars}
  IN  IF keep = {} THEN <<>>
      ELSE SubSeq(s, CHOOSE i \in keep : \A j \in keep : i <= j, Len(s))

\* s.strip(chars)
stripChars(s, chars) ==
  LET keep == {i \in 1..Len(s) : s[i] \notin chars}
  IN  IF keep = {} THEN <<>>
      ELSE SubSeq(s, CHOOSE i \in keep : \A j \in keep : i <= j,
                     CHOOSE i \in keep : \A j \in keep : i >= j)

strip(s) ==
  stripChars(s, Whitespace)

lstrip(s) ==
  lstripChars(s, Whitespace)

\* s.split(): the maximal runs of non-whitespace characters, in order.
RECURSIVE split(_)
split(s) ==
  LET t == lstrip(s)
  IN  IF t = <<>> THEN <<>>
      ELSE LET ws == {i \in 1..Len(t) : t[i] \in Whitespace}
               e  == IF ws = {} THEN Len(t) + 1
                     ELSE CHOOSE i \in ws : \A j \in ws : i <= j
           IN  <<SubSeq(t, 1, e - 1)>> \o split(SubSeq(t, e, Len(t)))

\* re.sub(r'[^a-z0-9]', '', s)
RECURSIVE removeNonAlnum(_)
removeNonAlnum(s) ==
  IF s = <<>> THEN <<>>
  ELSE IF Head(s) \in Range(LowerLetters) \cup Range(Digits)
    THEN <<Head(s)>> \o removeNonAlnum(Tail(s))
    ELSE removeNonAlnum(Tail(s))

DigitVal(c) ==
  (CHOOSE i \in 1..10 : Digits[i] = c) - 1

\* str(n) of a Python int.
RECURSIVE NatStr(_)
NatStr(n) ==
  IF n < 10 THEN <<Digits[n + 1]>>
  ELSE NatStr(n \div 10) \o <<Digits[(n % 10) + 1]>>

IntStr(n) ==
  IF n < 0 THEN <<"-">> \o NatStr(-n) ELSE NatStr(n)

\* f"{n:02d}": zero-padded to a width of 2, the sign counted in the width.
Fmt02d(n) ==
  IF n >= 0 /\ n < 10 THEN <<"0">> \o NatStr(n) ELSE IntStr(n)

\* int(round(num/den)), den > 0: Python 3 rounds a tie to the even integer.
Round(num, den) ==
  LET q == num \div den
      r == num % den
  IN  IF 2 * r < den THEN q
      ELSE IF 2 * r > den THEN q + 1
      ELSE IF q % 2 = 0 THEN q ELSE q + 1

(***************************************************************************)
(* ParameterSet: a Python dict, kept as the sequence of its entries in     *)
(* insertion order.  A value is a str, a float (thousandths), an int, a    *)
(* bool or None.                                                           *)
(***************************************************************************)
StrV(s) ==
  [t |-> "str", s |-> s]

FloatV(m) ==
  [t |-> "float", m |-> m]

IntV(n) ==
  [t |-> "int", n |-> n]

BoolV(b) ==
  [t |-> "bool", b |-> b]

NoneV ==
  [t |-> "none"]

HasKey(d, k) ==
  \E i \in 1..Len(d) : d[i].k = k

\* d.get(k, default)
Get(d, k, default) ==
  IF HasKey(d, k) THEN d[CHOOSE i \in 1..Len(d) : d[i].k = k].v ELSE default

\* d[k] = v: an existing key keeps its place, a new key goes last.
SetItem(d, k, v) ==
  IF HasKey(d, k)
    THEN [i \in 1..Len(d) |-> IF d[i].k = k THEN [k |-> k, v |-> v] ELSE d[i]]
    ELSE Append(d, [k |-> k, v |-> v])

\* The digits of a fraction given in thousandths, trailing zeros dropped,
\* one digit at least: repr() of a float prints the shortest decimal.
FracDigits(f) ==
  IF f % 100 = 0 THEN <<Digits[(f \div 100) + 1]>>
  ELSE IF f % 10 = 0
    THEN <<Digits[(f \div 100) + 1], Digits[((f \div 10) % 10) + 1]>>
    ELSE <<Digits[(f \div 100) + 1], Digits[((f \div 10) % 10) + 1],
           Digits[(f % 10) + 1]>>

\* str(v) of a float given in thousandths.
FloatStr(m) ==
  LET a == IF m < 0 THEN -m ELSE m
  IN  (IF m < 0 THEN <<"-">> ELSE <<>>)
        \o NatStr(a \div 1000) \o <<".">> \o FracDigits(a % 1000)

\* str(v)
PyStr(v) ==
  CASE v.t = "str"   -> v.s
    [] v.t = "float" -> FloatStr(v.m)
    [] v.t = "int"   -> IntStr(v.n)
    [] v.t = "bool"  -> IF v.b THEN <<"T", "r", "u", "e">>
                               ELSE <<"F", "a", "l", "s", "e">>
    [] v.t = "none"  -> <<"N", "o", "n", "e">>

\* float(v) of a number, in thousandths.
PyFloat(v) ==
  CASE v.t = "float" -> v.m
    [] v.t = "int"   -> v.n * 1000
    [] v.t = "bool"  -> IF v.b THEN 1000 ELSE 0

\* NACA456._format_val
format_val(v) ==
  IF v.t = "bool"
    THEN IF v.b THEN <<".", "T", "R", "U", "E", ".">>
                ELSE <<".", "F", "A", "L", "S", "E", ".">>
  ELSE IF v.t = "str"
    THEN IF startswith(v.s, <<"'">>) \/ startswith(v.s, <<"\"">>)
           THEN v.s
           ELSE <<"'">> \o v.s \o <<"'">>
    ELSE PyStr(v)

(***************************************************************************)
(* NameCodec: NACA456._make_naca_name.  The result is [ok, name] or, when  *)
(* ValueError is raised, [ok |-> FALSE, err].                              *)
(***************************************************************************)
NACA ==
  <<"N", "A", "C", "A", " ">>

Named(s) ==
  [ok |-> TRUE, name |-> s]

Raised(e) ==
  [ok |-> FALSE, err |-> e]

make_naca_name_NoUpper(d) ==
  LET prof == PyStr(Get(d, "profile", StrV(<<>>)))
      cl   == PyFloat(Get(d, "cl", FloatV(0)))
      t    == PyFloat(Get(d, "toc", FloatV(0)))
      td   == Round(t * 100, 1000)
  IN  IF prof = <<"4">>
        THEN LET m == Round(PyFloat(Get(d, "cmax", FloatV(0))) * 100, 1000)
                 p == Round(PyFloat(Get(d, "xmaxc", FloatV(0))) * 10, 1000)
             IN  Named(NACA \o IntStr(m) \o IntStr(p) \o Fmt02d(td))
      ELSE IF prof = <<"5">>
        THEN LET X  == Round(cl * 100, 15000)
                 YZ == Round(PyFloat(Get(d, "xmaxc", FloatV(0))) * 20, 1000)
             IN  Named(NACA \o IntStr(X) \o Fmt02d(YZ) \o Fmt02d(td))
      ELSE IF startswith(prof, <<"6">>) \/ startswith(prof, <<"7">>)
                \/ startswith(prof, <<"8">>)
        THEN Named(NACA \o prof \o IntStr(Round(cl * 10, 1000)) \o Fmt02d(td))
      ELSE IF prof = <<"1", "6">>
        THEN Named(NACA \o <<"1", "6", "-">> \o IntStr(Round(cl * 10, 1000))
                     \o Fmt02d(td))
        ELSE Raised("ValueError")

make_naca_name(d) ==
  LET prof == upper(PyStr(Get(d, "profile", StrV(<<>>))))
      cl   == PyFloat(Get(d, "cl", FloatV(0)))
      t    == PyFloat(Get(d, "toc", FloatV(0)))
      td   == Round(t * 100, 1000)
  IN  IF prof = <<"4">>
        THEN LET m == Round(PyFloat(Get(d, "cmax", FloatV(0))) * 100, 1000)
                 p == Round(PyFloat(Get(d, "xmaxc", FloatV(0))) * 10, 1000)
             IN  Named(NACA \o IntStr(m) \o IntStr(p) \o Fmt02d(td))
      ELSE IF prof = <<"5">>
        THEN LET X  == Round(cl * 100, 15000)
                 YZ == Round(PyFloat(Get(d, "xmaxc", FloatV(0))) * 20, 1000)
             IN  Named(NACA \o IntStr(X) \o Fmt02d(YZ) \o Fmt02d(td))
      ELSE IF startswith(prof, <<"6">>) \/ startswith(prof, <<"7">>)
                \/ startswith(prof, <<"8">>)
        THEN Named(NACA \o prof \o IntStr(Round(cl * 10, 1000)) \o Fmt02d(td))
      ELSE IF prof = <<"1", "6">>
        THEN Named(NACA \o <<"1", "6", "-">> \o IntStr(Round(cl * 10, 1000))
                     \o Fmt02d(td))
        ELSE Raised("ValueError")

\* generate, lines 137-138: the Stem of a name.
StemKeepCase(name) ==
  removeNonAlnum(name)

Stem(name) ==
  removeNonAlnum(lower(name))

(***************************************************************************)
(* ReportParser: generate, lines 166-202.  A report is the list of lines   *)
(* that read_text().splitlines() gives.  A float is [neg, mag]: its sign   *)
(* bit and its magnitude in units of 10^-7.                                *)
(***************************************************************************)
FracUnit ==
  10000000

RECURSIVE DigitsVal(_)
DigitsVal(ds) ==
  IF ds = <<>> THEN 0
  ELSE 10 * DigitsVal(SubSeq(ds, 1, Len(ds) - 1)) + DigitVal(ds[Len(ds)])

RECURSIVE Pow10(_)
Pow10(k) ==
  IF k = 0 THEN 1 ELSE 10 * Pow10(k - 1)

\* float(tok) of a decimal literal: an optional sign, digits, at most one
\* point, one digit at least.  The literals float() accepts beyond these
\* (exponents, inf, nan, underscores) and fractions of more than 7 digits
\* are not among the tokens of the reports modelled.
PyFloatOfStr(tok) ==
  LET signed == tok # <<>> /\ tok[1] \in {"+", "-"}
      body   == IF signed THEN Tail(tok) ELSE tok
      dots   == {i \in 1..Len(body) : body[i] = "."}
      dot    == IF dots = {} THEN Len(body) + 1 ELSE CHOOSE i \in dots : TRUE
      ip     == SubSeq(body, 1, dot - 1)
      fp     == SubSeq(body, dot + 1, Len(body))
  IN  IF /\ \A i \in 1..Len(body) : body[i] \in Range(Digits) \cup {"."}
         /\ Cardinality(dots) <= 1
         /\ Len(ip) + Len(fp) >= 1
         /\ Len(fp) <= 7
        THEN [ok  |-> TRUE,
              neg |-> signed /\ tok[1] = "-",
              mag |-> DigitsVal(ip) * FracUnit + DigitsVal(fp) * Pow10(7 - Len(fp))]
        ELSE [ok |-> FALSE]

\* -v
Negate(v) ==
  [neg |-> ~v.neg, mag |-> v.mag]

Marker ==
  <<"I", "N", "T", "E", "R", "P", "O", "L", "A", "T", "E", "D", " ",
    "C", "O", "O", "R", "D", "I", "N", "A", "T", "E", "S">>

\* lines 171-172: the index of the first line holding the marker, 0 for None.
InterpIndex(lines) ==
  LET hit == {i \in 1..Len(lines) : contains(lines[i], Marker)}
  IN  IF hit = {} THEN 0 ELSE CHOOSE i \in hit : \A j \in hit : i <= j

\* line 179
IsCamberedHeader(L) ==
  /\ startswith(lower(strip(L)), <<"x">>)
  /\ contains(lower(L), <<"y", "u", "p", "p", "e", "r">>)

\* line 191
IsSymmetricHeader(L) ==
  /\ startswith(lower(lstrip(L)), <<"x">>)
  /\ contains(lower(L), <<"d", "y", "/", "d", "x">>)

\* lines 181 and 193: the row that ends the scan.
IsTerminator(L) ==
  \/ strip(L) = <<>>
  \/ startswith(lower(strip(L)), <<"e", "n", "d">>)

\* lines 183-186 and 195-197: the floats of tokens 2..ncols+1 of a row, read
\* left to right; the first token that is missing raises IndexError, the
\* first that is no number ValueError.
RECURSIVE RowFloats(_, _, _)
RowFloats(p, k, ncols) ==
  IF k > ncols THEN [ok |-> TRUE, vals |-> <<>>]
  ELSE IF Len(p) < k + 1 THEN Raised("IndexError")
  ELSE LET f == PyFloatOfStr(stripChars(p[k + 1], {" ", "*"}))
       IN  IF ~f.ok THEN Raised("ValueError")
           ELSE LET rest == RowFloats(p, k + 1, ncols)
                IN  IF ~rest.ok THEN rest
                    ELSE [ok   |-> TRUE,
                          vals |-> <<[neg |-> f.neg, mag |-> f.mag]>> \o rest.vals]

\* ScanRows with "continue" for "break": the terminator is passed over.
RECURSIVE ScanRowsSkip(_, _, _, _)
ScanRowsSkip(lines, i, ncols, acc) ==
  IF i > Len(lines) THEN [ok |-> TRUE, rows |-> acc]
  ELSE IF IsTerminator(lines[i]) THEN ScanRowsSkip(lines, i + 1, ncols, acc)
  ELSE LET r == RowFloats(split(lines[i]), 1, ncols)
       IN  IF ~r.ok THEN r
           ELSE ScanRowsSkip(lines, i + 1, ncols, Append(acc, r.vals))

\* ScanRows with the exception of a bad row caught: the rows read so far
\* are kept.
RECURSIVE ScanRowsPartial(_, _, _, _)
ScanRowsPartial(lines, i, ncols, acc) ==
  IF i > Len(lines) \/ IsTerminator(lines[i]) THEN [ok |-> TRUE, rows |-> acc]
  ELSE LET r == RowFloats(split(lines[i]), 1, ncols)
       IN  IF ~r.ok THEN [ok |-> TRUE, rows |-> acc]
           ELSE ScanRowsPartial(lines, i + 1, ncols, Append(acc, r.vals))

\* The for loops of lines 180-186 and 192-197, from line i on: the rows read
\* so far are in acc.
RECURSIVE ScanRows(_, _, _, _)
ScanRows(lines, i, ncols, acc) ==
  IF i > Len(lines) \/ IsTerminator(lines[i]) THEN [ok |-> TRUE, rows |-> acc]
  ELSE LET r == RowFloats(split(lines[i]), 1, ncols)
       IN  IF ~r.ok THEN r
           ELSE ScanRows(lines, i + 1, ncols, Append(acc, r.vals))

Column(rows, k) ==
  [i \in 1..Len(rows) |-> rows[i][k]]

\* lines 176-186
ParseCambered(lines, interp) ==
  LET hs == {j \in (interp + 1)..Len(lines) : IsCamberedHeader(lines[j])}
  IN  IF hs = {} THEN Raised("StopIteration")
      ELSE LET header == CHOOSE j \in hs : \A k \in hs : j <= k
               r == ScanRows(lines, header + 1, 3, <<>>)
           IN  IF ~r.ok THEN r
               ELSE [ok |-> TRUE, cambered |-> TRUE,
                     x  |-> Column(r.rows, 1),
                     yu |-> Column(r.rows, 2),
                     yl |-> Column(r.rows, 3)]

\* lines 188-198
ParseSymmetricNoMirror(lines) ==
  LET hs == {j \in 1..Len(lines) : IsSymmetricHeader(lines[j])}
  IN  IF hs = {} THEN Raised("StopIteration")
      ELSE LET header == CHOOSE j \in hs : \A k \in hs : j <= k
               r == ScanRows(lines, header + 1, 2, <<>>)
           IN  IF ~r.ok THEN r
               ELSE [ok |-> TRUE, cambered |-> FALSE,
                     x  |-> Column(r.rows, 1),
                     yu |-> Column(r.rows, 2),
                     yl |-> Column(r.rows, 2)]

ParseSymmetric(lines) ==
  LET hs == {j \in 1..Len(lines) : IsSymmetricHeader(lines[j])}
  IN  IF hs = {} THEN Raised("StopIteration")
      ELSE LET header == CHOOSE j \in hs : \A k \in hs : j <= k
               r == ScanRows(lines, header + 1, 2, <<>>)
           IN  IF ~r.ok THEN r
               ELSE [ok |-> TRUE, cambered |-> FALSE,
                     x  |-> Column(r.rows, 1),
                     yu |-> Column(r.rows, 2),
                     yl |-> [i \in 1..Len(r.rows) |-> Negate(r.rows[i][2])]]

\* lines 170-202: the coordinates of a report, or the exception raised.
ParseReport(lines) ==
  LET interp == InterpIndex(lines)
  IN  IF interp # 0 THEN ParseCambered(lines, interp)
                    ELSE ParseSymmetric(lines)

(***************************************************************************)
(* GeometryExporter: NACA456._export_for_xfoil                             *)
(***************************************************************************)
\* a[::-1]
Reversed(a) ==
  [i \in 1..Len(a) |-> a[Len(a) + 1 - i]]

\* a[1:]
From1(a) ==
  SubSeq(a, 2, Len(a))

RECURSIVE ZeroPad(_, _)
ZeroPad(ds, width) ==
  IF Len(ds) >= width THEN ds ELSE ZeroPad(<<"0">> \o ds, width)

\* f"{v:.6f}": the value rounded to 6 decimals, the sign bit printed.  (No
\* magnitude modelled lies half way between two 6-decimal values.)
Fmt6f(v) ==
  LET u == Round(v.mag, 10)
  IN  (IF v.neg THEN <<"-">> ELSE <<>>)
        \o NatStr(u \div 1000000) \o <<".">>
        \o ZeroPad(NatStr(u % 1000000), 6)

\* lines 106-107
ContourXsNoDrop(x) ==
  Reversed(x) \o x

ContourXs(x) ==
  Reversed(x) \o From1(x)

ContourYs(y_upper, y_lower) ==
  Reversed(y_upper) \o From1(y_lower)

Min(a, b) ==
  IF a < b THEN a ELSE b

\* lines 109-111: the text of the .dat file, its label line and the lines
\* zip(xs, ys) gives.
DatText(x, y_upper, y_lower, airfoil_name) ==
  LET xs == ContourXs(x)
      ys == ContourYs(y_upper, y_lower)
  IN  [label |-> airfoil_name,
       pts   |-> [i \in 1..Min(Len(xs), Len(ys)) |->
                    <<Fmt6f(xs[i]), Fmt6f(ys[i])>>]]

(***************************************************************************)
(* The inputs of the model                                                 *)
(***************************************************************************)
\* The generate calls made in one behaviour.
MaxCalls ==
  2

\* The lines of the longest report the engine writes.
MaxLines ==
  4

\* The threads that call generate; the sequential program is thread 1.
Procs ==
  {1, 2}

Entry(k, v) ==
  [k |-> k, v |-> v]

\* A 4-digit section: "NACA 2412".
ParamsA ==
  <<Entry("profile", StrV(<<"4">>)), Entry("cmax", FloatV(20)),
    Entry("xmaxc", FloatV(400)), Entry("toc", FloatV(120))>>

\* The example of main.py, lines 65-71: "NACA 63615".
ParamsB ==
  <<Entry("profile", StrV(<<"6", "3">>)), Entry("camber", StrV(<<"6", "M">>)),
    Entry("toc", FloatV(150)), Entry("cl", FloatV(600)),
    Entry("dencode", IntV(3))>>

\* A name given by the caller, whose Stem is that of "NACA 2412".
ParamsN ==
  <<Entry("name", StrV(<<"n", "a", "c", "a", "-", "2", "4", "1", "2">>)),
    Entry("profile", StrV(<<"4">>)), Entry("toc", FloatV(120))>>

ParamSets ==
  {ParamsA, ParamsB, ParamsN}

\* No entry, or the entry of key k with one of the values vs.
OptEntry(k, vs) ==
  {<<>>} \cup {<<Entry(k, v)>> : v \in vs}

\* The family tags: the families, a tag in lower case, tags that are none.
NameTags ==
  {<<"4">>, <<"5">>, <<"6", "3">>, <<"6", "3", "a">>, <<"7">>, <<"1", "6">>,
   <<"4", "M">>, <<>>}

\* The ParameterSets without a name.
NameParamSets ==
  {t \o c \o x \o th \o l :
     t  \in OptEntry("profile", {StrV(g) : g \in NameTags}),
     c  \in OptEntry("cmax", {FloatV(20), FloatV(25)}),
     x  \in OptEntry("xmaxc", {FloatV(400), FloatV(150)}),
     th \in OptEntry("toc", {FloatV(60), FloatV(120), FloatV(155), FloatV(1000)}),
     l  \in OptEntry("cl", {FloatV(250), FloatV(300), FloatV(600)})}

\* The characters of the names a caller gives, and the longest such name.
NameChars ==
  {"K", "k", "2", "-", "KELVIN"}

MaxNameLen ==
  3

GivenNames ==
  UNION {[1..n -> NameChars] : n \in 0..MaxNameLen}

\* The ParameterSets with a name.
GivenNameParamSets ==
  {<<Entry("name", StrV(n))>> : n \in GivenNames}

LineMarker ==
  <<"I", "N", "T", "E", "R", "P", "O", "L", "A", "T", "E", "D", " ",
    "C", "O", "O", "R", "D", "I", "N", "A", "T", "E", "S">>

LineHeaderC ==
  <<" ", "X", " ", "y", "u", "p", "p", "e", "r">>

LineHeaderS ==
  <<"x", " ", "d", "y", "/", "d", "x">>

LineBlank ==
  <<" ">>

LineEnd ==
  <<" ", "E", "n", "d">>

LineRowA ==
  <<"1", " ", ".", "5", "*", " ", ".", "2", "5", " ", "-", ".", "5">>

LineRowB ==
  <<"2", " ", "1", " ", "0", ".", "1", "2", "3", "4", "5", "6", "7", " ",
    "-", "0">>

LineRowShort ==
  <<"3", " ", "1", " ", ".", "5">>

LineRowBad ==
  <<"4", " ", "*", " ", "0", " ", "0">>

LineCatalogue ==
  {LineMarker, LineHeaderC, LineHeaderS, LineBlank, LineEnd,
   LineRowA, LineRowB, LineRowShort, LineRowBad}

ReportCambered ==
  <<LineMarker, LineHeaderC, LineRowA, LineRowB, LineEnd>>

\* A row after the terminator.
ReportTrailing ==
  <<LineMarker, LineHeaderC, LineRowA, LineEnd, LineRowB>>

\* A header row before the marker.
ReportEarlyHeader ==
  <<LineHeaderC, LineEnd, LineMarker, LineHeaderC, LineRowA>>

\* Every report of at most MaxLines lines of the catalogue, and three longer.
AllReports ==
  UNION {[1..n -> LineCatalogue] : n \in 0..MaxLines}
    \cup {ReportCambered, ReportTrailing, ReportEarlyHeader}

ReportMalformed ==
  <<LineHeaderS, LineRowB, LineRowBad>>

PipelineReports ==
  {ReportCambered, ReportMalformed}

(***************************************************************************)
(* The state                                                               *)
(***************************************************************************)
VARIABLES
  exe,      \* the engine executable exists
  obj,      \* the NACA456 object: "none", "ok", or "failed" (__init__ raised)
  fs,       \* the files under root: fs.cwd by file name, the others by Stem
  pset,     \* pset[p]: the ParameterSet (dict) thread p passes to generate
  call,     \* call[p]: thread p's generate call
  calls,    \* the generate calls begun
  runs,     \* the subprocess.run calls made
  hist      \* the outcome of every generate call that ended, in order

vars ==
  <<exe, obj, fs, pset, call, calls, runs, hist>>

NoFiles ==
  <<>>

\* d with file k holding c.
Put(d, k, c) ==
  [x \in (DOMAIN d) \cup {k} |-> IF x = k THEN c ELSE d[x]]

\* d without file k.
Del(d, k) ==
  [x \in (DOMAIN d) \ {k} |-> d[x]]

\* A call: where it is (pc), its name and Stem, the exception that left it
\* (err), what it parsed (res) and returned (ret); and, for the record, its
\* number (id), whether it derived the name, the number of its engine run
\* (run), how that run ended (status), the subprocess.run calls it made
\* (invoked), the files it moved, the configuration file it wrote and the
\* run that wrote the report it read.
IdleCall ==
  [pc |-> "idle", id |-> 0, name |-> <<>>, stem |-> <<>>, err |-> "none",
   derived |-> FALSE, run |-> 0, status |-> "none", invoked |-> 0,
   moved |-> {}, wrote |-> <<>>, read |-> <<>>,
   res |-> [ok |-> FALSE], ret |-> <<>>]

Init ==
  /\ exe = TRUE
  /\ obj = "none"
  /\ fs = [cwd |-> NoFiles, nml |-> NoFiles, out |-> NoFiles, gnu |-> NoFiles,
           dbg |-> NoFiles, xfoil |-> NoFiles, dirs |-> FALSE]
  /\ pset = [p \in Procs |-> <<>>]
  /\ call = [p \in Procs |-> IdleCall]
  /\ calls = 0
  /\ runs = 0
  /\ hist = <<>>

(***************************************************************************)
(* The caller and the environment                                          *)
(***************************************************************************)
\* NACA456.__init__, lines 46-56.
ConstructNoCheck ==
  /\ obj = "none"
  /\ obj' = "ok"
  /\ fs' = [fs EXCEPT !.dirs = TRUE]
  /\ UNCHANGED <<exe, pset, call, calls, runs, hist>>

Construct ==
  /\ obj = "none"
  /\ IF ~exe
       THEN obj' = "failed" /\ fs' = fs
       ELSE obj' = "ok" /\ fs' = [fs EXCEPT !.dirs = TRUE]
  /\ UNCHANGED <<exe, pset, call, calls, runs, hist>>

\* The executable is removed from root, before or after the construction.
RemoveExe ==
  /\ exe
  /\ exe' = FALSE
  /\ UNCHANGED <<obj, fs, pset, call, calls, runs, hist>>

\* Thread p holds a ParameterSet and is in no generate call.
Resting(p) ==
  call[p].pc \in {"ready", "done"}

\* The caller builds the ParameterSet of its next call, once for a call.
NewParams(p, sets) ==
  /\ obj = "ok" /\ call[p].pc \in {"idle", "done"} /\ calls < MaxCalls
  /\ \E d \in sets : pset' = [pset EXCEPT ![p] = d]
  /\ call' = [call EXCEPT ![p] = [IdleCall EXCEPT !.pc = "ready"]]
  /\ UNCHANGED <<exe, obj, fs, calls, runs, hist>>

(***************************************************************************)
(* NACA456.generate, step by step                                          *)
(***************************************************************************)
\* The call of thread p ends: it returns, or the exception err leaves it.
Ended(c, err) ==
  [c EXCEPT !.pc = "done", !.err = err]

Outcome(c) ==
  [stem |-> c.stem, ok |-> c.err = "none"]

\* lines 129-139: the name and the Stem.
Begin(p) ==
  /\ obj = "ok" /\ Resting(p) /\ calls < MaxCalls
  /\ calls' = calls + 1
  /\ LET d     == pset[p]
         given == Get(d, "name", NoneV)
         c0    == [IdleCall EXCEPT !.id = calls + 1, !.derived = (given = NoneV)]
         r     == IF given = NoneV THEN make_naca_name(d) ELSE Named(given.s)
     IN  IF ~r.ok
           THEN /\ call' = [call EXCEPT ![p] = Ended(c0, r.err)]
                /\ hist' = Append(hist, Outcome(Ended(c0, r.err)))
                /\ pset' = pset
           ELSE /\ call' = [call EXCEPT ![p] =
                              [c0 EXCEPT !.pc = "nml", !.name = r.name,
                                         !.stem = Stem(r.name)]]
                /\ pset' = IF given = NoneV
                             THEN [pset EXCEPT ![p] = SetItem(d, "name", StrV(r.name))]
                             ELSE pset
                /\ hist' = hist
  /\ UNCHANGED <<exe, obj, fs, runs>>

\* lines 145-148: the text of the configuration file, "&NACA", one
\* "  k = v," line for each entry, "/".
NmlText(d) ==
  [i \in 1..Len(d) |-> [k |-> d[i].k, v |-> format_val(d[i].v)]]

\* lines 142-148
WriteNml(p) ==
  /\ call[p].pc = "nml"
  /\ LET f == [text |-> NmlText(pset[p]), call |-> call[p].id]
     IN  /\ fs' = [fs EXCEPT !.nml = Put(@, call[p].stem, f)]
         /\ call' = [call EXCEPT ![p].pc = "run", ![p].wrote = <<f>>]
  /\ UNCHANGED <<exe, obj, pset, calls, runs, hist>>

\* subprocess.run(..., check=True, timeout=timeout): the exception raised
\* for the way the engine ended, "none" for exit code 0 within the timeout.
RunRaisesUnchecked(status) ==
  CASE status = "timeout" -> "TimeoutExpired"
    [] OTHER              -> "none"

RunRaises(status) ==
  CASE status = "ok"      -> "none"
    [] status = "nonzero" -> "CalledProcessError"
    [] status = "timeout" -> "TimeoutExpired"

\* The files in the working directory after the engine's run number n: the
\* engine writes a report (rep: <<>> or <<lines>>), naca.gnu and naca.dbg, or
\* leaves any of them out.
EngineWrites(cwd, n, rep, g, b) ==
  LET c1 == IF rep = <<>> THEN cwd
            ELSE Put(cwd, "naca.out", [run |-> n, body |-> rep[1]])
      c2 == IF g THEN Put(c1, "naca.gnu", [run |-> n, body |-> <<>>]) ELSE c1
  IN  IF b THEN Put(c2, "naca.dbg", [run |-> n, body |-> <<>>]) ELSE c2

\* lines 150-158: the engine runs in root, it ends in one of statuses, with a
\* report of reps and, if aux allows, naca.gnu and naca.dbg written.
RunEngine(p, statuses, reps, aux) ==
  /\ call[p].pc = "run"
  /\ runs' = runs + 1
  /\ IF ~exe
       THEN LET c == Ended([call[p] EXCEPT !.invoked = @ + 1], "FileNotFoundError")
            IN  /\ call' = [call EXCEPT ![p] = c]
                /\ hist' = Append(hist, Outcome(c))
                /\ fs' = fs
       ELSE \E status \in statuses, rep \in reps, g \in aux, b \in aux :
              LET c == [call[p] EXCEPT !.invoked = @ + 1, !.run = runs + 1,
                                       !.status = status]
              IN  /\ fs' = [fs EXCEPT !.cwd = EngineWrites(@, runs + 1, rep, g, b)]
                  /\ IF RunRaises(status) # "none"
                       THEN /\ call' = [call EXCEPT ![p] = Ended(c, RunRaises(status))]
                            /\ hist' = Append(hist, Outcome(Ended(c, RunRaises(status))))
                       ELSE /\ call' = [call EXCEPT ![p] = [c EXCEPT !.pc = "mv_out"]]
                            /\ hist' = hist
  /\ UNCHANGED <<exe, obj, pset, calls>>

\* lines 161-164, one turn of the loop: src is moved to d/<stem>.<ext> if it
\* exists; shutil.move replaces a file that is there.
Move(p, at, src, d, next) ==
  /\ call[p].pc = at
  /\ IF src \in DOMAIN fs.cwd
       THEN /\ fs' = [fs EXCEPT !.cwd = Del(@, src),
                                ![d] = Put(@, call[p].stem, fs.cwd[src])]
            /\ call' = [call EXCEPT ![p].pc = next, ![p].moved = @ \cup {src}]
       ELSE /\ fs' = fs
            /\ call' = [call EXCEPT ![p].pc = next]
  /\ UNCHANGED <<exe, obj, pset, calls, runs, hist>>

MoveOut(p) ==
  Move(p, "mv_out", "naca.out", "out", "mv_gnu")

MoveGnu(p) ==
  Move(p, "mv_gnu", "naca.gnu", "gnu", "mv_dbg")

MoveDbg(p) ==
  Move(p, "mv_dbg", "naca.dbg", "dbg", "parse")

\* lines 166-202: out/<stem>.out is read and parsed.
Parse(p) ==
  /\ call[p].pc = "parse"
  /\ IF call[p].stem \notin DOMAIN fs.out
       THEN LET c == Ended(call[p], "FileNotFoundError")
            IN  /\ call' = [call EXCEPT ![p] = c]
                /\ hist' = Append(hist, Outcome(c))
       ELSE LET f == fs.out[call[p].stem]
                r == ParseReport(f.body)
                c == [call[p] EXCEPT !.read = <<f.run>>]
            IN  IF ~r.ok
                  THEN /\ call' = [call EXCEPT ![p] = Ended(c, r.err)]
                       /\ hist' = Append(hist, Outcome(Ended(c, r.err)))
                  ELSE /\ call' = [call EXCEPT ![p] = [c EXCEPT !.pc = "export", !.res = r]]
                       /\ hist' = hist
  /\ UNCHANGED <<exe, obj, fs, pset, calls, runs>>

\* lines 219-223: the export, and the arrays returned.
Export(p) ==
  /\ call[p].pc = "export"
  /\ LET c == call[p]
         f == [text |-> DatText(c.res.x, c.res.yu, c.res.yl, c.name), call |-> c.id]
         e == [c EXCEPT !.pc = "done",
                        !.ret = IF c.res.cambered
                                  THEN <<c.res.x, c.res.yu, c.res.yl>>
                                  ELSE <<c.res.x, c.res.yu>>]
     IN  /\ fs' = [fs EXCEPT !.xfoil = Put(@, c.stem, f)]
         /\ call' = [call EXCEPT ![p] = e]
         /\ hist' = Append(hist, Outcome(e))
  /\ UNCHANGED <<exe, obj, pset, calls, runs>>

(***************************************************************************)
(* Specifications                                                          *)
(***************************************************************************)
Sequential ==
  {1}

Optional(S) ==
  {<<>>} \cup {<<r>> : r \in S}

\* The pipeline, one call after another: the engine ends in any way and
\* writes any of its three files.
Next ==
  \/ Construct
  \/ \E p \in Sequential :
       \/ NewParams(p, ParamSets)
       \/ Begin(p)
       \/ WriteNml(p)
       \/ RunEngine(p, {"ok", "nonzero", "timeout"}, Optional(PipelineReports), BOOLEAN)
       \/ MoveOut(p)
       \/ MoveGnu(p)
       \/ MoveDbg(p)
       \/ Parse(p)
       \/ Export(p)

Spec ==
  Init /\ [][Next]_vars

\* The executable may be removed at any time.
NextExe ==
  \/ Construct
  \/ RemoveExe
  \/ \E p \in Sequential :
       \/ NewParams(p, {ParamsA, ParamsB})
       \/ Begin(p)
       \/ WriteNml(p)
       \/ RunEngine(p, {"ok", "nonzero", "timeout"}, Optional({ReportCambered}), BOOLEAN)
       \/ MoveOut(p)
       \/ MoveGnu(p)
       \/ MoveDbg(p)
       \/ Parse(p)
       \/ Export(p)

SpecExe ==
  Init /\ [][NextExe]_vars

\* The parser and the exporter on every report: calls whose engine writes a
\* well-formed report, then a last call whose engine writes any report.
NextParse ==
  \/ Construct
  \/ \E p \in Sequential :
       \/ NewParams(p, {ParamsN})
       \/ Begin(p)
       \/ WriteNml(p)
       \/ RunEngine(p, {"ok"},
                    IF call[p].id < MaxCalls THEN {<<ReportCambered>>}
                                             ELSE {<<r>> : r \in AllReports},
                    {FALSE})
       \/ MoveOut(p)
       \/ MoveGnu(p)
       \/ MoveDbg(p)
       \/ Parse(p)
       \/ Export(p)

SpecParse ==
  Init /\ [][NextParse]_vars

\* The name and the Stem of every ParameterSet: a first call on any
\* ParameterSet, then a call on the same one or on that of main.py.
NextName ==
  \/ Construct
  \/ \E p \in Sequential :
       \/ NewParams(p, IF calls = 0 THEN NameParamSets \cup GivenNameParamSets
                                     ELSE {ParamsB})
       \/ Begin(p)

SpecName ==
  Init /\ [][NextName]_vars

(***************************************************************************)
(* Properties                                                              *)
(***************************************************************************)
EngineDirs ==
  {"out", "gnu", "dbg"}

\* C1: a generate call whose engine run ended with a non-zero exit or at the
\* timeout ends with the matching exception and returns nothing; it has
\* moved none of the engine's files (no file of out/, gnu/, dbg/ comes from
\* its run), read no report, written no export file and called
\* subprocess.run once; nml/<stem>.nml holds what this call wrote.
C1_EngineFailureAborts ==
  \A p \in Procs :
    LET c == call[p]
    IN  c.status \in {"nonzero", "timeout"} =>
          /\ c.pc = "done"
          /\ c.err = (IF c.status = "nonzero" THEN "CalledProcessError"
                                               ELSE "TimeoutExpired")
          /\ c.ret = <<>>
          /\ c.moved = {}
          /\ \A d \in EngineDirs : \A k \in DOMAIN fs[d] : fs[d][k].run # c.run
          /\ c.read = <<>> /\ ~c.res.ok
          /\ \A k \in DOMAIN fs.xfoil : fs.xfoil[k].call # c.id
          /\ c.invoked = 1
          /\ c.stem \in DOMAIN fs.nml
          /\ c.wrote = <<fs.nml[c.stem]>>
          /\ fs.nml[c.stem].call = c.id

\* A run that timed out after the engine had written its report: the report
\* is still in the working directory.
C1_Witness ==
  \E p \in Procs :
    /\ call[p].status = "timeout"
    /\ "naca.out" \in DOMAIN fs.cwd
    /\ fs.cwd["naca.out"].run = call[p].run
    /\ call[p].id = 2

\* C2, as claimed: while the executable is absent, no configuration file is
\* written and subprocess.run is not called.
C2_NoWorkWhileExeAbsent ==
  [][~exe => (fs'.nml = fs.nml /\ runs' = runs)]_vars

\* C2, amended: the executable is looked for by the constructor only.  A
\* construction without the executable raises before a directory is made,
\* and without an object no configuration file is written and
\* subprocess.run is not called; a generate call made after the executable
\* was removed has written its configuration file when subprocess.run does
\* not find the executable.
C2_CheckedAtConstruction ==
  /\ [](obj # "ok" => fs.nml = NoFiles /\ runs = 0 /\ calls = 0 /\ ~fs.dirs)
  /\ [](\A p \in Procs :
          (call[p].invoked = 1 /\ call[p].run = 0) =>
             /\ ~exe
             /\ call[p].err = "FileNotFoundError"
             /\ call[p].stem \in DOMAIN fs.nml
             /\ fs.nml[call[p].stem].call = call[p].id)
  /\ [][obj = "none" /\ obj' # "none" =>
          IF exe THEN obj' = "ok" ELSE obj' = "failed" /\ fs' = fs]_vars
  /\ [][\A p \in Procs :
          (~exe /\ call[p].pc = "run" /\ call'[p].pc # "run") =>
             /\ call'[p].pc = "done" /\ call'[p].err = "FileNotFoundError"
             /\ fs' = fs /\ runs' = runs + 1]_vars

\* The constructor raised: the executable was removed before it ran.
C2_Witness ==
  obj = "failed" /\ ~exe /\ ~fs.dirs

\* The export file a call that returned has written, and its arrays.
Returned(c) ==
  c.pc = "done" /\ c.err = "none"

PointsOf(c) ==
  fs.xfoil[c.stem].text.pts

\* Points 0..N-1 are the upper branch from index N-1 down to 0, points
\* N..2N-2 the lower branch from index 1 to N-1 (indices from 0).
ContourOrdered(c) ==
  LET N == Len(c.res.x)
  IN  /\ \A k \in 0..(N - 1) :
           PointsOf(c)[k + 1] = <<Fmt6f(c.res.x[N - k]), Fmt6f(c.res.yu[N - k])>>
      /\ \A j \in 1..(N - 1) :
           PointsOf(c)[N + j] = <<Fmt6f(c.res.x[j + 1]), Fmt6f(c.res.yl[j + 1])>>

\* C3, as claimed: for every N >= 0 the contour written has 2N - 1 points,
\* in the order of ContourOrdered.
C3_ContourAlways2NMinus1 ==
  \A p \in Procs :
    Returned(call[p]) =>
      /\ Len(PointsOf(call[p])) = 2 * Len(call[p].res.x) - 1
      /\ ContourOrdered(call[p])

\* C3, amended: for every N >= 1 the contour written has 2N - 1 points, in
\* the order of ContourOrdered, the leading-edge point once, from the upper
\* branch; for N = 0 the contour has no point.
C3_ContourSplice ==
  \A p \in Procs :
    Returned(call[p]) =>
      LET c == call[p]
          N == Len(c.res.x)
      IN  /\ c.stem \in DOMAIN fs.xfoil /\ fs.xfoil[c.stem].call = c.id
          /\ Len(c.res.yu) = N /\ Len(c.res.yl) = N
          /\ Len(PointsOf(c)) = (IF N = 0 THEN 0 ELSE 2 * N - 1)
          /\ ContourOrdered(c)

\* A contour of two rows with different x, written by the last call.
C3_Witness ==
  \E p \in Procs :
    /\ Returned(call[p]) /\ call[p].id = MaxCalls
    /\ Len(call[p].res.x) = 2
    /\ call[p].res.x[1] # call[p].res.x[2]
    /\ Len(PointsOf(call[p])) = 3

\* The report a call has read.
ReportOf(c) ==
  fs.out[c.stem].body

FirstOf(S) ==
  CHOOSE i \in S : \A j \in S : i <= j

HasMarker(lines) ==
  \E i \in 1..Len(lines) : contains(lines[i], LineMarker)

BeginsWith(L, word) ==
  startswith(lower(strip(L)), word)

\* The header rows of the cambered schema: after the first marker row, a
\* row that begins with "x" and contains "yupper", in any letter case.
CamberedHeaders(lines) ==
  LET m == FirstOf({i \in 1..Len(lines) : contains(lines[i], LineMarker)})
  IN  {j \in (m + 1)..Len(lines) :
         /\ BeginsWith(lines[j], <<"x">>)
         /\ contains(lower(lines[j]), <<"y", "u", "p", "p", "e", "r">>)}

\* The header rows of the symmetric schema.
SymmetricHeaders(lines) ==
  {j \in 1..Len(lines) :
     /\ BeginsWith(lines[j], <<"x">>)
     /\ contains(lower(lines[j]), <<"d", "y", "/", "d", "x">>)}

HeadersOf(lines) ==
  IF HasMarker(lines) THEN CamberedHeaders(lines) ELSE SymmetricHeaders(lines)

\* The first row after row h that is blank or begins with "end"; the end of
\* the report if there is none.
EndOfRows(lines, h) ==
  LET ts == {t \in (h + 1)..Len(lines) :
               strip(lines[t]) = <<>> \/ BeginsWith(lines[t], <<"e", "n", "d">>)}
  IN  IF ts = {} THEN Len(lines) + 1 ELSE FirstOf(ts)

\* Token k of a row as a number.
TokenFloat(L, k) ==
  PyFloatOfStr(stripChars(split(L)[k], {" ", "*"}))

TokenValue(L, k) ==
  [neg |-> TokenFloat(L, k).neg, mag |-> TokenFloat(L, k).mag]

\* C4: a report with the marker that is parsed without error is parsed with
\* the cambered schema; its header is the first row after the marker that
\* begins with "x" and contains "yupper"; x, y_upper and y_lower have as
\* many entries as there are rows strictly between the header and the first
\* blank or "end" row after it (the end of the report if there is none),
\* entry i being tokens 2, 3, 4 of the i-th row after the header.
C4_CamberedRowCount ==
  \A p \in Procs :
    LET c == call[p]
    IN  (c.read # <<>> /\ c.res.ok /\ HasMarker(ReportOf(c))) =>
          /\ c.res.cambered
          /\ CamberedHeaders(ReportOf(c)) # {}
          /\ LET h == FirstOf(CamberedHeaders(ReportOf(c)))
                 n == EndOfRows(ReportOf(c), h) - h - 1
             IN  /\ Len(c.res.x) = n /\ Len(c.res.yu) = n /\ Len(c.res.yl) = n
                 /\ \A i \in 1..n :
                      /\ c.res.x[i] = TokenValue(ReportOf(c)[h + i], 2)
                      /\ c.res.yu[i] = TokenValue(ReportOf(c)[h + i], 3)
                      /\ c.res.yl[i] = TokenValue(ReportOf(c)[h + i], 4)

\* A cambered report parsed: a row, the terminator, a row after it.
C4_Witness ==
  \E p \in Procs :
    LET c == call[p]
    IN  /\ Returned(c) /\ c.res.cambered /\ Len(c.res.x) = 1
        /\ LET h == FirstOf(CamberedHeaders(ReportOf(c)))
           IN  EndOfRows(ReportOf(c), h) < Len(ReportOf(c))

\* A row with too few tokens for n columns, or with a token among them that
\* is no number.
BadRow(L, n) ==
  \/ Len(split(L)) < n + 1
  \/ \E k \in 2..(n + 1) : ~TokenFloat(L, k).ok

MissingHeader(lines) ==
  HeadersOf(lines) = {}

\* The bad rows between the header and the terminator.
BadRows(lines) ==
  IF MissingHeader(lines) THEN {}
  ELSE LET h == FirstOf(HeadersOf(lines))
       IN  {r \in (h + 1)..(EndOfRows(lines, h) - 1) :
              BadRow(lines[r], IF HasMarker(lines) THEN 3 ELSE 2)}

\* The export files an earlier call of SpecParse may have left for the Stem
\* of c: the calls before the last parse ReportCambered.
EarlierExports(c) ==
  LET r == ParseReport(ReportCambered)
  IN  {[text |-> DatText(r.x, r.yu, r.yl, c.name), call |-> i] : i \in 1..(c.id - 1)}

\* C5: a call that has read a report without a header row of its schema, or
\* with a bad row before the terminator, ends with an exception
\* (StopIteration for the header: a report with the marker and no "yupper"
\* header is not parsed with the symmetric schema), returns nothing, keeps no
\* coordinates, and out/xfoil/<stem>.dat is as it was before the call.
C5_ParseFailureIsFatal ==
  \A p \in Procs :
    LET c == call[p]
    IN  (/\ c.read # <<>>
         /\ MissingHeader(ReportOf(c)) \/ BadRows(ReportOf(c)) # {}) =>
          /\ c.pc = "done"
          /\ IF MissingHeader(ReportOf(c))
               THEN c.err = "StopIteration"
               ELSE c.err \in {"IndexError", "ValueError"}
          /\ c.ret = <<>> /\ ~c.res.ok
          /\ c.stem \in DOMAIN fs.xfoil => fs.xfoil[c.stem] \in EarlierExports(c)

\* A report whose second row is bad, read when the export file of an
\* earlier call is there.
C5_Witness ==
  \E p \in Procs :
    LET c == call[p]
    IN  /\ c.read # <<>> /\ c.err = "ValueError"
        /\ ~MissingHeader(ReportOf(c))
        /\ FirstOf(BadRows(ReportOf(c))) = FirstOf(HeadersOf(ReportOf(c))) + 2
        /\ c.stem \in DOMAIN fs.xfoil

\* C6: a report without the marker that is parsed without error is parsed
\* with the symmetric schema: y_lower has the length of y_upper and
\* y_lower[i] = -y_upper[i] for every i; (x, y_upper) is returned and the
\* lower branch of the export is the mirrored one.
C6_SymmetricMirror ==
  \A p \in Procs :
    LET c == call[p]
        N == Len(c.res.yu)
    IN  (c.read # <<>> /\ c.res.ok /\ ~HasMarker(ReportOf(c))) =>
          /\ ~c.res.cambered
          /\ Len(c.res.yl) = N /\ Len(c.res.x) = N
          /\ \A i \in 1..N :
               /\ c.res.yl[i].mag = c.res.yu[i].mag
               /\ c.res.yl[i].neg = ~c.res.yu[i].neg
          /\ c.pc = "done" =>
               /\ c.ret = <<c.res.x, c.res.yu>>
               /\ \A j \in 1..(N - 1) :
                    PointsOf(c)[N + j][2]
                      = Fmt6f([neg |-> ~c.res.yu[j + 1].neg, mag |-> c.res.yu[j + 1].mag])

\* A symmetric report of two rows, the second with y # 0, exported.
C6_Witness ==
  \E p \in Procs :
    LET c == call[p]
    IN  /\ Returned(c) /\ ~c.res.cambered
        /\ Len(c.res.yu) = 2 /\ c.res.yu[2].mag # 0

\* The family tag and a numeric field of a ParameterSet, a missing field
\* counted as zero.
TagOf(d) ==
  PyStr(Get(d, "profile", StrV(<<>>)))

Field(d, k) ==
  PyFloat(Get(d, k, FloatV(0)))

\* n in exactly two digits; no text when n has no two-digit form.
TwoDigits(n) ==
  IF n \in 0..99 THEN {<<Digits[(n \div 10) + 1], Digits[(n % 10) + 1]>>} ELSE {}

\* n padded with a zero to a width of two, longer texts kept whole.
PaddedToTwo(n) ==
  {IF Len(IntStr(n)) < 2 THEN <<"0">> \o IntStr(n) ELSE IntStr(n)}

\* The rules of the name for the family tag and the fields of d: the
\* derivation fails, or the name is one of names.
NameRule(tag, d, TwoDigit(_)) ==
  LET td  == TwoDigit(Round(Field(d, "toc") * 100, 1000))
      cl  == Field(d, "cl")
      n10 == IntStr(Round(cl * 10, 1000))
  IN  IF tag = <<"4">>
        THEN [fails |-> FALSE,
              names |-> {NACA \o IntStr(Round(Field(d, "cmax") * 100, 1000))
                              \o IntStr(Round(Field(d, "xmaxc") * 10, 1000)) \o t :
                           t \in td}]
      ELSE IF tag = <<"5">>
        THEN [fails |-> FALSE,
              names |-> {NACA \o IntStr(Round(cl * 100, 15000)) \o yz \o t :
                           yz \in TwoDigit(Round(Field(d, "xmaxc") * 20, 1000)),
                           t \in td}]
      ELSE IF tag # <<>> /\ Head(tag) \in {"6", "7", "8"}
        THEN [fails |-> FALSE, names |-> {NACA \o tag \o n10 \o t : t \in td}]
      ELSE IF tag = <<"1", "6">>
        THEN [fails |-> FALSE,
              names |-> {NACA \o <<"1", "6", "-">> \o n10 \o t : t \in td}]
        ELSE [fails |-> TRUE, names |-> {}]

\* The call c followed the rule r.
FollowsRule(c, r) ==
  IF r.fails THEN c.pc = "done" /\ c.err = "ValueError"
  ELSE c.err = "none" /\ c.name \in r.names

\* C7, as claimed: the name a call derives is "NACA " and, by the family
\* tag as the caller wrote it, the digits of the rounded fields, the
\* two-digit fields in exactly two digits; the derivation fails for every
\* other tag.
C7_NameFromTagAsWritten ==
  \A p \in Procs :
    LET c == call[p]
    IN  (c.pc # "idle" /\ c.derived) =>
          FollowsRule(c, NameRule(TagOf(pset[p]), pset[p], TwoDigits))

\* C7, amended: the rules apply to the family tag in upper case, which is
\* the tag the name of a 6-, 7- or 8-series section holds, and a two-digit
\* field is padded with a zero to a width of two, a longer value kept
\* whole; no field but the tag and the numeric fields decides the name.
C7_NameFromUpperCaseTag ==
  \A p \in Procs :
    LET c == call[p]
    IN  (c.pc # "idle" /\ c.derived) =>
          FollowsRule(c, NameRule(upper(TagOf(pset[p])), pset[p], PaddedToTwo))

\* The name of a 6-series section derived from a tag in lower case.
C7_Witness ==
  \E p \in Procs :
    /\ call[p].derived /\ call[p].err = "none"
    /\ TagOf(pset[p]) = <<"6", "3", "a">>
    /\ call[p].name = NACA \o <<"6", "3", "A", "6", "1", "6">>

\* The characters a Stem is made of, and the ASCII letters and digits.
StemChars ==
  Range(LowerLetters) \cup Range(Digits)

AsciiAlnum ==
  StemChars \cup Range(UpperLetters)

\* The call c has a name: a derivation, if any, did not fail.
HasName(c) ==
  c.pc \notin {"idle", "ready"} /\ c.id # 0 /\ ~(c.derived /\ c.err = "ValueError")

\* The names n and m differ only in letter case or in characters that are
\* not of kept: without these characters they are equal up to case.
DifferOnlyOutside(n, m, kept(_)) ==
  lower(SelectSeq(n, kept)) = lower(SelectSeq(m, kept))

IsAsciiAlnum(ch) ==
  ch \in AsciiAlnum

LowersToStemChar(ch) ==
  LowerCh(ch) \in StemChars

\* The Stem of a call is its name in lower case without the characters
\* outside [a-z0-9]; it is made of [a-z0-9] only; the Stem of the Stem is
\* the Stem.
StemOfName(c) ==
  /\ c.stem = SelectSeq(lower(c.name), LAMBDA ch : ch \in StemChars)
  /\ Range(c.stem) \subseteq StemChars
  /\ Stem(c.stem) = c.stem

\* C8, as claimed: the Stem is the lower-cased name without the characters
\* outside [a-z0-9], stable under a second sanitization, and every name
\* that differs from the call's name only in letter case or in characters
\* outside [A-Za-z0-9] has the call's Stem.
C8_StemCollidesOutsideAscii ==
  \A p \in Procs :
    LET c == call[p]
    IN  HasName(c) =>
          /\ StemOfName(c)
          /\ \A m \in GivenNames :
               DifferOnlyOutside(c.name, m, IsAsciiAlnum) => Stem(m) = c.stem

\* C8, amended: the names that collide are those that differ only in
\* letter case or in characters whose lower-case form is outside [a-z0-9];
\* a character outside [A-Za-z0-9] whose lower-case form is a letter of
\* [a-z] (the Kelvin sign, U+212A) is kept as that letter.
C8_StemCollidesOutsideLowered ==
  \A p \in Procs :
    LET c == call[p]
    IN  HasName(c) =>
          /\ StemOfName(c)
          /\ \A m \in GivenNames :
               DifferOnlyOutside(c.name, m, LowersToStemChar) => Stem(m) = c.stem

\* A name in upper case with a character that is removed, and a different
\* name of the same Stem.
C8_Witness ==
  \E p \in Procs :
    /\ HasName(call[p])
    /\ call[p].name = <<"K", "-", "2">>
    /\ call[p].stem = <<"k", "2">>
    /\ Stem(<<"k", "2", " ">>) = call[p].stem

\* Every generate call so far returned, and with the Stem of the call c.
AllReturnedWithStemOf(c) ==
  /\ hist # <<>>
  /\ \A i \in 1..Len(hist) : hist[i].ok /\ hist[i].stem = c.stem

\* C9: after generate calls that all returned and all had the same Stem,
\* each artifact under that Stem is the latest call's: nml/<stem>.nml and
\* out/xfoil/<stem>.dat were written by the latest call, out/<stem>.out by
\* its engine run, and a gnu/<stem>.gnu or dbg/<stem>.dbg that is there was
\* written by its engine run; nothing of an earlier call is left.
C9_RerunReplacesArtifacts ==
  \A p \in Procs :
    LET c == call[p]
    IN  (Returned(c) /\ AllReturnedWithStemOf(c)) =>
          /\ c.stem \in DOMAIN fs.nml /\ fs.nml[c.stem].call = c.id
          /\ c.stem \in DOMAIN fs.xfoil /\ fs.xfoil[c.stem].call = c.id
          /\ c.stem \in DOMAIN fs.out /\ fs.out[c.stem].run = c.run
          /\ \A d \in {"gnu", "dbg"} :
               c.stem \in DOMAIN fs[d] => fs[d][c.stem].run = c.run

\* C10: the report a generate call reads was written by the engine run of
\* that call.
C10_ReportOfOwnRun ==
  \A p \in Procs :
    call[p].read # <<>> => call[p].read = <<call[p].run>>

(***************************************************************************)
(* Concurrent callers                                                      *)
(***************************************************************************)
\* Two threads call generate on one object and one root, their steps
\* interleaved in every way.  Every engine run exits with code 0 and writes
\* its report, naca.gnu and naca.dbg, so that no call meets the file of a
\* run that failed or the gap of a run that wrote nothing.
NextConcurrent ==
  \/ Construct
  \/ \E p \in Procs :
       \/ NewParams(p, {ParamsA, ParamsB})
       \/ Begin(p)
       \/ WriteNml(p)
       \/ RunEngine(p, {"ok"}, {<<ReportCambered>>}, {TRUE})
       \/ MoveOut(p)
       \/ MoveGnu(p)
       \/ MoveDbg(p)
       \/ Parse(p)
       \/ Export(p)

SpecConcurrent ==
  Init /\ [][NextConcurrent]_vars

\* The call c has gone past the move of the report.
PastMoveOut(c) ==
  c.run # 0 /\ c.pc \in {"mv_gnu", "mv_dbg", "parse", "export", "done"}

\* C11: of two generate calls of different Stems on one root, under every
\* interleaving of their steps, each moves the report of its own engine
\* run to out/<stem>.out, reads that report, and does not fail for want of
\* a report.
C11_DifferentStemsDoNotInterfere ==
  \A p, q \in Procs :
    LET c == call[p]
    IN  (/\ p # q
         /\ HasName(c) /\ HasName(call[q])
         /\ c.stem # call[q].stem) =>
          /\ c.read # <<>> => c.read = <<c.run>>
          /\ c.err # "FileNotFoundError"
          /\ (PastMoveOut(c) /\ c.pc # "done") =>
               /\ c.stem \in DOMAIN fs.out
               /\ fs.out[c.stem].run = c.run

(***************************************************************************)
(* A ParameterSet used for more than one call                              *)
(***************************************************************************)
\* The thicknesses the caller sets: 0.12 and 0.15.
TocValues ==
  {FloatV(120), FloatV(150)}

\* After a call, the caller sets namelist['toc'] of the ParameterSet it
\* passed and will pass the same object to its next call.
ChangeToc(p) ==
  /\ obj = "ok" /\ call[p].pc = "done" /\ calls < MaxCalls
  /\ \E v \in TocValues :
       /\ Get(pset[p], "toc", NoneV) # v
       /\ pset' = [pset EXCEPT ![p] = SetItem(@, "toc", v)]
  /\ call' = [call EXCEPT ![p] = [IdleCall EXCEPT !.pc = "ready"]]
  /\ UNCHANGED <<exe, obj, fs, calls, runs, hist>>

\* The caller builds ParameterSets without a name, and passes one again as
\* it is or with another thickness.
NextReuse ==
  \/ Construct
  \/ \E p \in Sequential :
       \/ NewParams(p, {ParamsA, ParamsB})
       \/ ChangeToc(p)
       \/ Begin(p)
       \/ WriteNml(p)
       \/ RunEngine(p, {"ok", "nonzero"}, {<<ReportCambered>>}, BOOLEAN)
       \/ MoveOut(p)
       \/ MoveGnu(p)
       \/ MoveDbg(p)
       \/ Parse(p)
       \/ Export(p)

SpecReuse ==
  Init /\ [][NextReuse]_vars

\* The ParameterSets the caller of NextReuse has built: those of NewParams,
\* as they are or with a thickness of ChangeToc.
CallerSets ==
  {ParamsA, ParamsB}
    \cup {SetItem(d, "toc", v) : d \in {ParamsA, ParamsB}, v \in TocValues}

\* C12: the caller never puts a name into its ParameterSet.  The name of
\* every generate call is then the name derived from the values the set
\* holds at that call, its Stem the Stem of that name, also when the set
\* was passed before and its thickness changed since; and the set is as
\* the caller built it: generate adds, changes and moves no entry.
C12_NameOfCurrentValues ==
  \A p \in Sequential :
    LET c == call[p]
        r == NameRule(upper(TagOf(pset[p])), pset[p], PaddedToTwo)
    IN  /\ pset[p] # <<>> => pset[p] \in CallerSets
        /\ c.id # 0 =>
             IF r.fails THEN c.err = "ValueError"
             ELSE /\ c.name \in r.names
                  /\ c.stem = SelectSeq(lower(c.name), LAMBDA ch : ch \in StemChars)

=============================================================================
